---------------------------- MODULE Spec2Model ----------------------------
(***************************************************************************)
(* A model of the Python_Graphing scripts:                                 *)
(*   time_series_plot.py     moving_average (numpy same-mode convolution)  *)
(*   log_trend_analyzer.py   LOG_PATTERN, parse_message, load_log, main    *)
(*   csv_trend_analyzer.py   load_csv, main                                *)
(*   json_trend_analyzer.py  load_json, summarize, main                    *)
(*                                                                         *)
(* Text is modelled as a sequence of chunks.  A chunk is one of the        *)
(* separator characters "," " " "\t" "=" or a run of characters that       *)
(* holds none of them, so the regular expression, str.strip, re.split and  *)
(* str.split see a chunk exactly as they see a single character of its     *)
(* class.  Flatten turns a chunk sequence into the Python string.          *)
(*                                                                         *)
(* Numbers: moving_average is modelled over the integers with exact        *)
(* rationals (a sequence of numerators and one denominator), so equality   *)
(* in the model is the floating-point equality of the code up to rounding. *)
(***************************************************************************)
EXTENDS Integers, Sequences, FiniteSets, TLC

VARIABLES
    pc,           \* position of the running script / function
    x,            \* moving_average: the input array
    window_size,  \* moving_average: the window argument
    y,            \* moving_average: what the call produced
    message,      \* parse_message: the argument
    result,       \* parse_message: the returned dict
    file,         \* load_log: the lines of the file, without their line ends
    pos,          \* load_log: how many lines of the file have been read
    records,      \* load_log: the list of records built so far
    df,           \* the DataFrame: [columns, rows]
    analyzer,     \* which script runs: "csv", "json" or "log"
    args,         \* the parsed command line: [instrument, metric]
    source,       \* the input file of the CSV / JSON analyzer
    status,       \* how the run ended
    output        \* what the run printed or plotted, in order

vars == <<pc, x, window_size, y, message, result, file, pos, records,
          df, analyzer, args, source, status, output>>

maVars  == <<x, window_size, y>>
msgVars == <<message, result>>
logVars == <<file, pos, records>>
runVars == <<analyzer, args, source, status, output>>

-----------------------------------------------------------------------------
(* Bounds of the model *)

MaxLen == 3        \* longest input array of moving_average
MaxWindow == 4     \* largest window_size
MaxSample == 2     \* samples are drawn from -1 .. MaxSample

-----------------------------------------------------------------------------
(* Helpers *)

NoArgs == [instrument |-> [kind |-> "none", s |-> "", n |-> 0],
           metric |-> [kind |-> "none", s |-> "", n |-> 0]]
NoSource == [header |-> {}, rows |-> <<>>]

RECURSIVE SeqsUpTo(_, _)
\* all sequences over S of length 0 .. n
SeqsUpTo(S, n) ==
    IF n = 0 THEN {<<>>}
    ELSE LET shorter == SeqsUpTo(S, n - 1)
         IN shorter \cup {Append(s, c) : s \in {t \in shorter : Len(t) = n - 1}, c \in S}

\* a[j] with 0-based index j, and 0 outside the array (the zero padding)
At0(a, j) == IF j >= 0 /\ j < Len(a) THEN a[j + 1] ELSE 0

RECURSIVE SumRange(_, _, _)
\* sum of the samples a[lo .. hi] (0-based, zero outside the array)
SumRange(a, lo, hi) ==
    IF lo > hi THEN 0 ELSE At0(a, lo) + SumRange(a, lo + 1, hi)

-----------------------------------------------------------------------------
(* time_series_plot.py: moving_average *)

Ones(n) == [i \in 1..n |-> 1]

RECURSIVE ConvAt(_, _, _, _)
\* full convolution at 0-based position k: sum over j <= upto of a[j] * v[k - j]
ConvAt(a, v, k, upto) ==
    IF upto < 0 THEN 0
    ELSE At0(a, upto) * At0(v, k - upto) + ConvAt(a, v, k, upto - 1)

\* numpy.convolve(a, v, mode="same"): the arguments are swapped so that the
\* first is the longer, an empty argument raises ValueError, and the output
\* has the length of the longer argument, cut from the full convolution
\* starting at offset (n - 1) div 2, n the length of the shorter.
convolve_same(a, v) ==
    LET long  == IF Len(v) > Len(a) THEN v ELSE a
        short == IF Len(v) > Len(a) THEN a ELSE v
        n     == Len(short)
        off   == (n - 1) \div 2
    IN IF n = 0
       THEN [status |-> "ValueError", num |-> <<>>]
       ELSE [status |-> "ok",
             num |-> [i \in 1..Len(long) |->
                         ConvAt(long, short, (i - 1) + off, Len(long) - 1)]]

\* moving_average(x, window_size): numerators over the denominator den
moving_average(xs, w) ==
    IF w < 1
    THEN [status |-> "ValueError", num |-> <<>>, den |-> 1]
    ELSE LET c == convolve_same(xs, Ones(w))
         IN [status |-> c.status, num |-> c.num, den |-> w]

NoResult == [status |-> "none", num |-> <<>>, den |-> 1]

InitMA ==
    /\ pc = "call"
    /\ x \in SeqsUpTo(-1..MaxSample, MaxLen)
    /\ window_size \in 0..MaxWindow
    /\ y = NoResult
    /\ message = <<>> /\ result = <<>>
    /\ file = <<>> /\ pos = 0 /\ records = <<>>
    /\ df = <<>>
    /\ analyzer = "none" /\ args = NoArgs /\ source = NoSource
    /\ status = "none" /\ output = <<>>

CallMovingAverage ==
    /\ pc = "call"
    /\ y' = moving_average(x, window_size)
    /\ pc' = "done"
    /\ UNCHANGED <<x, window_size, msgVars, logVars, df, runVars>>

NextMA == CallMovingAverage

SpecMA == InitMA /\ [][NextMA]_vars

-----------------------------------------------------------------------------
(* Claims about moving_average *)

\* the value of output position i (1-based) times window_size, as the claim
\* has it: the sum of the window_size samples of the window centred on i,
\* i.e. 0-based positions (i-1) - W div 2 .. (i-1) - W div 2 + W - 1,
\* samples outside the array counting as zero
CenteredWindowSum(xs, w, i) ==
    SumRange(xs, (i - 1) - (w \div 2), (i - 1) - (w \div 2) + w - 1)

\* C1: for every input of length N and every window_size >= 1 (also
\* window_size > N) the sequence moving_average returns has length N.
C1_LengthEqualsInput ==
    (pc = "done" /\ window_size >= 1 /\ y.status = "ok")
        => Len(y.num) = Len(x)

\* C2: for every input x, the empty one included, moving_average(x, 1)
\* returns successfully and the result equals x element for element.
C2_WindowOneIsIdentity ==
    (pc = "done" /\ window_size = 1)
        => /\ y.status = "ok"
           /\ Len(y.num) = Len(x)
           /\ \A i \in 1..Len(x) : y.num[i] = x[i] * y.den

\* C3: for every input of length N and window_size W >= 1, W times output
\* position i is the sum of the in-range samples of the window centred on
\* i (zero-padded same-length convolution), for odd and for even W.
C3_CenteredZeroPaddedMean ==
    (pc = "done" /\ window_size >= 1 /\ y.status = "ok")
        => /\ y.den = window_size
           /\ \A i \in 1..Len(x) :
                 /\ i <= Len(y.num)
                 /\ y.num[i] = CenteredWindowSum(x, window_size, i)

\* what does hold of the code: with 1 <= window_size <= N the output has
\* length N and is the centred zero-padded mean
MA_WithinLength ==
    (pc = "done" /\ window_size >= 1 /\ window_size <= Len(x))
        => /\ y.status = "ok"
           /\ Len(y.num) = Len(x)
           /\ \A i \in 1..Len(x) : y.num[i] = CenteredWindowSum(x, window_size, i)

\* and with window_size > N >= 1 the output has length window_size
MA_LongWindow ==
    (pc = "done" /\ window_size > Len(x) /\ Len(x) >= 1)
        => y.status = "ok" /\ Len(y.num) = window_size

-----------------------------------------------------------------------------
(* Text: chunk sequences *)

MaxMsgLen == 5     \* longest message handed to parse_message on its own

Whitespace == {" ", "\t"}       \* what str.strip and float() strip
MsgChars == {" ", "\t", ",", "=", "k", "1"}

RECURSIVE Flatten(_)
\* the Python string a chunk sequence stands for
Flatten(s) == IF s = <<>> THEN "" ELSE Head(s) \o Flatten(Tail(s))

RECURSIVE LStrip(_)
LStrip(s) == IF s # <<>> /\ Head(s) \in Whitespace THEN LStrip(Tail(s)) ELSE s

RECURSIVE RStrip(_)
RStrip(s) ==
    IF s # <<>> /\ s[Len(s)] \in Whitespace THEN RStrip(SubSeq(s, 1, Len(s) - 1)) ELSE s

\* str.strip()
Strip(s) == RStrip(LStrip(s))

RECURSIVE SplitRuns(_, _, _, _, _)
\* re.split over runs of separator characters: the text between the runs,
\* an empty string before a leading run and after a trailing one
SplitRuns(s, seps, i, cur, acc) ==
    IF i > Len(s) THEN Append(acc, cur)
    ELSE IF s[i] \in seps
         THEN IF i > 1 /\ s[i - 1] \in seps
              THEN SplitRuns(s, seps, i + 1, <<>>, acc)
              ELSE SplitRuns(s, seps, i + 1, <<>>, Append(acc, cur))
         ELSE SplitRuns(s, seps, i + 1, Append(cur, s[i]), acc)

\* re.split(r"[ ,]+", s): the class holds the space and the comma only
TokenSeparators == {" ", ","}
re_split(s) == SplitRuns(s, TokenSeparators, 1, <<>>, <<>>)

\* position of the first "=" of a token that holds one
FirstEq(tok) == CHOOSE i \in 1..Len(tok) : tok[i] = "=" /\ \A j \in 1..(i - 1) : tok[j] # "="

\* cell values: a string, a number, None/NaN, and (after to_datetime) a time or NaT
StrV(str) == [kind |-> "str",  s |-> str, n |-> 0]
NumV(num) == [kind |-> "num",  s |-> "",  n |-> num]
None      == [kind |-> "none", s |-> "",  n |-> 0]

Digits == {"0", "1", "2", "3", "4", "5", "6", "7", "8", "9"}
DigitVal(c) ==
    CASE c = "0" -> 0 [] c = "1" -> 1 [] c = "2" -> 2 [] c = "3" -> 3 [] c = "4" -> 4
      [] c = "5" -> 5 [] c = "6" -> 6 [] c = "7" -> 7 [] c = "8" -> 8 [] OTHER -> 9

RECURSIVE Decimal(_)
Decimal(ds) ==
    IF ds = <<>> THEN 0
    ELSE 10 * Decimal(SubSeq(ds, 1, Len(ds) - 1)) + DigitVal(ds[Len(ds)])

\* float(value_str) inside try/except ValueError: surrounding whitespace is
\* ignored, a non-empty run of digits is its number, anything else is None.
\* The chunks of the model are single digits, separators, and words that
\* float() rejects (no sign, point, exponent, "inf" or "nan" among them).
float(value_str) ==
    LET t == Strip(value_str)
    IN IF t # <<>> /\ \A i \in 1..Len(t) : t[i] \in Digits
       THEN NumV(Decimal(t))
       ELSE None

\* result[key] = value
SetKey(dict, key, value) ==
    [k \in DOMAIN dict \cup {key} |-> IF k = key THEN value ELSE dict[k]]

EmptyDict == [k \in {} |-> None]

RECURSIVE ScanTokens(_, _)
\* the for loop of parse_message over the tokens
ScanTokens(tokens, dict) ==
    IF tokens = <<>> THEN dict
    ELSE LET tok == Head(tokens)
         IN IF \E i \in 1..Len(tok) : tok[i] = "="
            THEN LET e == FirstEq(tok)
                     key == Flatten(SubSeq(tok, 1, e - 1))
                     value_str == SubSeq(tok, e + 1, Len(tok))
                 IN ScanTokens(Tail(tokens), SetKey(dict, key, float(value_str)))
            ELSE ScanTokens(Tail(tokens), dict)

\* parse_message(message)
parse_message(msg) ==
    IF ~ \E i \in 1..Len(msg) : msg[i] = "="
    THEN EmptyDict
    ELSE ScanTokens(re_split(Strip(msg)), EmptyDict)

InitMsg ==
    /\ pc = "call"
    /\ message \in SeqsUpTo(MsgChars, MaxMsgLen)
    /\ result = EmptyDict
    /\ x = <<>> /\ window_size = 0 /\ y = NoResult
    /\ file = <<>> /\ pos = 0 /\ records = <<>>
    /\ df = <<>>
    /\ analyzer = "none" /\ args = NoArgs /\ source = NoSource
    /\ status = "none" /\ output = <<>>

CallParseMessage ==
    /\ pc = "call"
    /\ result' = parse_message(message)
    /\ pc' = "done"
    /\ UNCHANGED <<message, maVars, logVars, df, runVars>>

NextMsg == CallParseMessage

SpecMsg == InitMsg /\ [][NextMsg]_vars

-----------------------------------------------------------------------------
(* Claims about parse_message *)

\* the tokens as the claim cuts them: at runs of whitespace (space or tab)
\* or commas
ClaimTokens(msg) == SplitRuns(msg, {" ", "\t", ","}, 1, <<>>, <<>>)

\* the tokens of key=value shape, in order
KeyValueTokens(msg) == SelectSeq(ClaimTokens(msg), LAMBDA tok : \E i \in 1..Len(tok) : tok[i] = "=")

KeyOf(tok) == Flatten(SubSeq(tok, 1, FirstEq(tok) - 1))
ValueOf(tok) == float(SubSeq(tok, FirstEq(tok) + 1, Len(tok)))

\* the map of the claim: every key of a key=value token, mapped to the
\* value of its last occurrence
ClaimMap(msg) ==
    LET kv == KeyValueTokens(msg)
        keys == {KeyOf(kv[i]) : i \in 1..Len(kv)}
        Last(key) == CHOOSE i \in 1..Len(kv) :
                        /\ KeyOf(kv[i]) = key
                        /\ \A j \in (i + 1)..Len(kv) : KeyOf(kv[j]) # key
    IN [key \in keys |-> ValueOf(kv[Last(key)])]

\* C6: parse_message returns exactly the map obtained by cutting the
\* message at runs of whitespace (spaces and tabs alike) or commas and
\* mapping the key of every key=value token to its parsed number, or to
\* null when it does not parse; the last occurrence of a key wins and a
\* message without "=" gives the empty map.
C6_ParseMessageIsTokenMap ==
    pc = "done" => result = ClaimMap(message)

\* what does hold of the code: the same with no tab in the message
Msg_TokenMapWithoutTabs ==
    (pc = "done" /\ \A i \in 1..Len(message) : message[i] # "\t")
        => result = ClaimMap(message)

-----------------------------------------------------------------------------
(* log_trend_analyzer.py: LOG_PATTERN and load_log *)

MaxLineLen == 7    \* longest line (in chunks) of the one-line files
MaxFileLen == 2    \* most lines of a file made of the sample lines

\* ^(?P<timestamp>[^,]+),(?P<level>[^,]+),(?P<instrument_id>[^,]+),(?P<message>.+)$
\* as its items: a group is a character class repeated once or more
\* (greedy), the others are the literal comma
LOG_PATTERN_TwoFields ==
    << [cls |-> "notcomma", group |-> "timestamp"],
       [cls |-> "comma",    group |-> ""],
       [cls |-> "notcomma", group |-> "level"],
       [cls |-> "comma",    group |-> ""],
       [cls |-> "any",      group |-> "message"] >>

LOG_PATTERN ==
    << [cls |-> "notcomma", group |-> "timestamp"],
       [cls |-> "comma",    group |-> ""],
       [cls |-> "notcomma", group |-> "level"],
       [cls |-> "comma",    group |-> ""],
       [cls |-> "notcomma", group |-> "instrument_id"],
       [cls |-> "comma",    group |-> ""],
       [cls |-> "any",      group |-> "message"] >>

InClass(c, cls) ==
    CASE cls = "notcomma" -> c # ","
      [] cls = "comma"    -> c = ","
      [] OTHER            -> TRUE      \* ".": a stripped line holds no line end

RECURSIVE GreedyEnd(_, _, _)
\* the position after the longest run of characters of the class from p on
GreedyEnd(s, p, cls) ==
    IF p <= Len(s) /\ InClass(s[p], cls) THEN GreedyEnd(s, p + 1, cls) ELSE p

NoMatch == [ok |-> FALSE, ends |-> <<>>]

RECURSIVE MatchItems(_, _, _, _)
RECURSIVE TryPlus(_, _, _, _, _)
\* the backtracking match of the items pat[k ..] against s from position p,
\* anchored at the end of s: the end position of every item, or NoMatch
MatchItems(pat, s, p, k) ==
    IF k > Len(pat)
    THEN IF p = Len(s) + 1 THEN [ok |-> TRUE, ends |-> <<>>] ELSE NoMatch
    ELSE IF pat[k].group # ""
         THEN TryPlus(pat, s, p, k, GreedyEnd(s, p, pat[k].cls))
         ELSE IF p <= Len(s) /\ InClass(s[p], pat[k].cls)
              THEN LET r == MatchItems(pat, s, p + 1, k + 1)
                   IN IF r.ok THEN [ok |-> TRUE, ends |-> <<p + 1>> \o r.ends] ELSE NoMatch
              ELSE NoMatch

\* a repeated class taking s[p .. e-1], the longest first, then giving back
TryPlus(pat, s, p, k, e) ==
    IF e <= p THEN NoMatch
    ELSE LET r == MatchItems(pat, s, e, k + 1)
         IN IF r.ok THEN [ok |-> TRUE, ends |-> <<e>> \o r.ends]
            ELSE TryPlus(pat, s, p, k, e - 1)

\* LOG_PATTERN.match(line) and m.groupdict(): ok, and the text of each group
match(s) ==
    LET pat == LOG_PATTERN
        r == MatchItems(pat, s, 1, 1)
        Start(k) == IF k = 1 THEN 1 ELSE r.ends[k - 1]
        Item(g) == CHOOSE k \in 1..Len(pat) : pat[k].group = g
        groups == {pat[k].group : k \in 1..Len(pat)} \ {""}
    IN IF r.ok
       THEN [ok |-> TRUE,
             groupdict |-> [g \in groups |-> SubSeq(s, Start(Item(g)), r.ends[Item(g)] - 1)]]
       ELSE [ok |-> FALSE, groupdict |-> [g \in {} |-> <<>>]]

\* record = {"timestamp": ..., "level": ..., "instrument_id": ..., "message": ...}
\* record.update(msg_fields): a key of msg_fields replaces the record's own
make_record(data) ==
    LET msg_fields == parse_message(data["message"])
        record == [k \in DOMAIN data |-> StrV(Flatten(data[k]))]
    IN msg_fields @@ record

\* the body of "for line in f": strip, skip the empty line, skip the line the
\* pattern does not match, append the record
loop_body(recs, raw) ==
    LET l == Strip(raw)
    IN IF l = <<>> THEN recs
       ELSE LET m == match(l)
            IN IF ~ m.ok THEN recs
               ELSE Append(recs, make_record(m.groupdict))

RECURSIVE parse_lines(_, _)
\* the whole loop over the lines of a file
parse_lines(lines, recs) ==
    IF lines = <<>> THEN recs
    ELSE parse_lines(Tail(lines), loop_body(recs, Head(lines)))

-----------------------------------------------------------------------------
(* DataFrames *)

\* the timestamps pandas.to_datetime parses; every one has the same format,
\* so that parsing is element by element in every pandas version
TimestampText == << "2025-02-01 10:00:01", "2025-02-01 10:05:02", "2025-02-01 10:10:15" >>

NaT == [kind |-> "NaT", s |-> "", n |-> 0]
TimeV(t) == [kind |-> "time", s |-> "", n |-> t]

\* pd.to_datetime(v, errors="coerce") of one cell: the time, or NaT.  A cell
\* that is a number is not met: the inputs of the model hold no such timestamp.
to_datetime(v) ==
    IF v.kind = "str" /\ \E t \in 1..Len(TimestampText) : TimestampText[t] = v.s
    THEN TimeV(CHOOSE t \in 1..Len(TimestampText) : TimestampText[t] = v.s)
    ELSE NaT

\* a cell of a row; a key the row lacks is NaN
Cell(row, col) == IF col \in DOMAIN row THEN row[col] ELSE None

\* pd.DataFrame(list of dicts): the columns are the keys of all the rows
DataFrame(rows) ==
    [columns |-> UNION {DOMAIN rows[i] : i \in 1..Len(rows)}, rows |-> rows]

NoFrame == [columns |-> {}, rows |-> <<>>]

\* df.empty
empty(d) == d.columns = {} \/ d.rows = <<>>

\* df["timestamp"] = pd.to_datetime(df["timestamp"], errors="coerce")
coerce_timestamp(d) ==
    [d EXCEPT !.rows = [i \in 1..Len(d.rows) |->
        SetKey(d.rows[i], "timestamp", to_datetime(Cell(d.rows[i], "timestamp")))]]

dropna_KeepsAll(d, col) == d

\* df.dropna(subset=[col]): the rows whose cell is neither NaN/None nor NaT
dropna(d, col) ==
    [d EXCEPT !.rows = SelectSeq(d.rows,
        LAMBDA r : Cell(r, col).kind \notin {"none", "NaT"})]

\* the end of load_log, after the loop
frame_of_records(recs) ==
    LET d == DataFrame(recs)
    IN IF empty(d)
       THEN [status |-> "EmptyDataset", df |-> NoFrame]  \* ValueError("No valid log lines parsed.")
       ELSE [status |-> "ok", df |-> dropna(coerce_timestamp(d), "timestamp")]

\* load_log(path)
load_log(lines) == frame_of_records(parse_lines(lines, <<>>))

-----------------------------------------------------------------------------
(* load_log as a state machine: one step per line, one for the end *)

LineChars == {",", " ", "x", "="}

Sample1 == << "2025-02-01", " ", "10:00:01", ",", "INFO", ",", "IVD-001", ",",
              "pressure_kpa", "=", "1", "0", "1" >>
Sample2 == << "2025-02-01", " ", "10:05:02", ",", "WARN", ",", "IVD-001", ",",
              "pressure_kpa", "=", "9", "8", " " >>
Sample3 == << "2025-02-01", " ", "10:10:15", ",", "ERROR", ",", "IVD-002", ",",
              "pump_stall" >>
Sample4 == << "not", " ", "a", " ", "log", " ", "line" >>
Sample5 == << "yesterday", ",", "INFO", ",", "IVD-001", ",",
              "pressure_kpa", "=", "abc", ",", "retry" >>
Sample6 == << "2025-02-01", " ", "10:00:01", ",", "INFO", ",", "IVD-001", ",",
              "level", "=", "3" >>

SampleLines == {Sample1, Sample2, Sample3, Sample4, Sample5, Sample6}

\* the files of the model: every one-line file over LineChars, and every
\* file of sample lines
LogFiles ==
    {<<l>> : l \in SeqsUpTo(LineChars, MaxLineLen)} \cup SeqsUpTo(SampleLines, MaxFileLen)

InitLog ==
    /\ pc = "read"
    /\ file \in LogFiles
    /\ pos = 0
    /\ records = <<>>
    /\ df = NoFrame
    /\ status = "none"
    /\ x = <<>> /\ window_size = 0 /\ y = NoResult
    /\ message = <<>> /\ result = EmptyDict
    /\ analyzer = "none" /\ args = NoArgs /\ source = NoSource
    /\ output = <<>>

\* one turn of "for line in f"
ReadLine ==
    /\ pc = "read"
    /\ pos < Len(file)
    /\ pos' = pos + 1
    /\ records' = loop_body(records, file[pos + 1])
    /\ UNCHANGED <<pc, file, df, status, maVars, msgVars, analyzer, args, source, output>>

\* the end of the file: the DataFrame is built and returned, or ValueError
EndOfFile ==
    /\ pc = "read"
    /\ pos = Len(file)
    /\ LET r == frame_of_records(records)
       IN /\ df' = r.df
          /\ status' = r.status
    /\ pc' = "done"
    /\ UNCHANGED <<file, pos, records, maVars, msgVars, analyzer, args, source, output>>

NextLog == ReadLine \/ EndOfFile

SpecLog == InitLog /\ [][NextLog]_vars

-----------------------------------------------------------------------------
(* Claims about load_log's line loop *)

\* the shape <timestamp>,<level>,<instrument_id>,<message> as the claims
\* state it: the text is cut at its first three commas, and none of the
\* four pieces is empty
Commas(s) == {i \in 1..Len(s) : s[i] = ","}

NthComma(s, n) ==
    CHOOSE i \in Commas(s) : Cardinality({j \in Commas(s) : j < i}) = n - 1

FourFields(s) ==
    << SubSeq(s, 1, NthComma(s, 1) - 1),
       SubSeq(s, NthComma(s, 1) + 1, NthComma(s, 2) - 1),
       SubSeq(s, NthComma(s, 2) + 1, NthComma(s, 3) - 1),
       SubSeq(s, NthComma(s, 3) + 1, Len(s)) >>

HasShape(s) ==
    /\ Cardinality(Commas(s)) >= 3
    /\ \A f \in 1..4 : FourFields(s)[f] # <<>>

\* the lines read so far
LinesRead == SubSeq(file, 1, pos)

\* the record the claims expect of a text of the shape
ExpectedRecord(s) ==
    LET f == FourFields(s)
    IN parse_message(f[4]) @@
       [k \in {"timestamp", "level", "instrument_id", "message"} |->
           StrV(Flatten(CASE k = "timestamp"     -> f[1]
                          [] k = "level"         -> f[2]
                          [] k = "instrument_id" -> f[3]
                          [] OTHER               -> f[4]))]

RECURSIVE ExpectedRecords(_)
\* one record for every line that has the shape once its surrounding
\* whitespace is stripped, in the order of the lines
ExpectedRecords(lines) ==
    IF lines = <<>> THEN <<>>
    ELSE LET l == Strip(Head(lines))
         IN (IF HasShape(l) THEN <<ExpectedRecord(l)>> ELSE <<>>)
                \o ExpectedRecords(Tail(lines))

\* C4 (as stated): a line that lacks the shape (fewer than three commas or
\* an empty field) adds no record and raises no error, and every line that
\* has it adds exactly one: the records are as many as the lines of the
\* shape read so far.
C4_ShapeOfLineDecides ==
    /\ pc = "read" => status = "none"
    /\ Len(records) = Cardinality({i \in 1..pos : HasShape(file[i])})

\* C4 (amended): the shape is that of the line after str.strip(): the line
\* loop raises no error, and its records are exactly the records of the
\* lines read so far that have the shape once stripped, one each, in file
\* order.
C4_StrippedShapeDecides ==
    /\ pc = "read" => status = "none"
    /\ records = ExpectedRecords(LinesRead)

\* a file whose first line is skipped and whose second gives the one record
C4_Witness ==
    /\ pc = "done"
    /\ Len(file) = 2
    /\ ~ HasShape(Strip(file[1]))
    /\ HasShape(Strip(file[2]))
    /\ Len(records) = 1

\* the stripped lines of the shape read so far, in order
ShapedLinesRead == SelectSeq([i \in 1..pos |-> Strip(file[i])], HasShape)

\* C5: whatever the message holds, the record of a line of the shape has
\* timestamp, level and instrument_id equal to the text before the first,
\* second and third comma and message equal to the whole rest; the fields
\* taken from the message never replace them.
C5_FourFieldsNeverReplaced ==
    \A i \in 1..Len(records) :
        i <= Len(ShapedLinesRead) =>
            LET f == FourFields(ShapedLinesRead[i])
            IN /\ records[i]["timestamp"] = StrV(Flatten(f[1]))
               /\ records[i]["level"] = StrV(Flatten(f[2]))
               /\ records[i]["instrument_id"] = StrV(Flatten(f[3]))
               /\ records[i]["message"] = StrV(Flatten(f[4]))

\* what does hold of the code: a field keeps the text of the line unless
\* the message holds a key=value token with that field's name as its key
Log_FieldsKeptUnlessNamedInMessage ==
    \A i \in 1..Len(records) :
        i <= Len(ShapedLinesRead) =>
            LET f == FourFields(ShapedLinesRead[i])
                named == DOMAIN parse_message(f[4])
            IN /\ "timestamp" \notin named => records[i]["timestamp"] = StrV(Flatten(f[1]))
               /\ "level" \notin named => records[i]["level"] = StrV(Flatten(f[2]))
               /\ "instrument_id" \notin named => records[i]["instrument_id"] = StrV(Flatten(f[3]))
               /\ "message" \notin named => records[i]["message"] = StrV(Flatten(f[4]))

-----------------------------------------------------------------------------
(* The three analyzers: csv_trend_analyzer.py, json_trend_analyzer.py and   *)
(* log_trend_analyzer.py, main and what it calls                           *)

MaxRows == 2       \* most rows of a CSV file, objects of a JSON file

\* how a run ends, after the error taxonomy of the specification:
\*   MissingColumn  ValueError("... must contain a 'timestamp' ...") and
\*                  SystemExit("No 'instrument_id' column in data to filter on.")
\*   EmptyDataset   SystemExit("No data after filtering. ...") and
\*                  ValueError("No valid log lines parsed.")
\*   UnknownMetric  ValueError("Metric '...' not found in data")
Fatal == {"MissingColumn", "EmptyDataset", "UnknownMetric"}

\* Python truth of an optional string argument: None and "" are false
Truthy(a) == a.kind = "str" /\ a.s # ""

\* pd.read_csv: the header row gives the columns
read_csv(src) == [columns |-> src.header, rows |-> src.rows]

\* load_csv(path)
load_csv(src) ==
    LET d == read_csv(src)
    IN IF "timestamp" \notin d.columns
       THEN [status |-> "MissingColumn", df |-> NoFrame]
       ELSE [status |-> "ok", df |-> dropna(coerce_timestamp(d), "timestamp")]

\* load_json(path)
load_json(src) ==
    LET d == DataFrame(src.rows)
    IN IF "timestamp" \notin d.columns
       THEN [status |-> "MissingColumn", df |-> NoFrame]
       ELSE [status |-> "ok", df |-> dropna(coerce_timestamp(d), "timestamp")]

\* df[df["instrument_id"] == instrument]
select_instrument(d, instrument) ==
    [d EXCEPT !.rows = SelectSeq(d.rows,
        LAMBDA r : Cell(r, "instrument_id") = StrV(instrument.s))]

\* main of the CSV and JSON analyzers, "if args.instrument:"
filter_checked(d, instrument) ==
    IF Truthy(instrument)
    THEN IF "instrument_id" \notin d.columns
         THEN [status |-> "MissingColumn", df |-> d]
         ELSE [status |-> "ok", df |-> select_instrument(d, instrument)]
    ELSE [status |-> "ok", df |-> d]

\* main of the log analyzer, "if args.instrument:"
filter_log(d, instrument) ==
    IF Truthy(instrument)
    THEN [status |-> "ok", df |-> select_instrument(d, instrument)]
    ELSE [status |-> "ok", df |-> d]

empty_check_Never(d) == "ok"

\* "if df.empty: raise SystemExit(...)"
empty_check(d) == IF empty(d) THEN "EmptyDataset" ELSE "ok"

\* summarize_value(df); summarize_status(df)
summarize_csv(d) ==
    [status |-> "ok",
     out |-> (IF "value" \notin d.columns
              THEN <<"print: No 'value' column found; skipping numeric summary.">>
              ELSE <<"print: Value statistics">>)
          \o (IF "status" \notin d.columns
              THEN <<"print: No 'status' column found; skipping status summary.">>
              ELSE <<"print: Status counts">>)]

summarize_PrintsFirst(d, metric) ==
    IF metric.s \notin d.columns
    THEN [status |-> "UnknownMetric", out |-> <<"print: Metric">>]
    ELSE [status |-> "ok", out |-> <<"print: Metric statistics">>]

summarize_Skips(d, metric) ==
    IF metric.s \notin d.columns
    THEN [status |-> "ok", out |-> <<"print: Metric not found; skipping.">>]
    ELSE [status |-> "ok", out |-> <<"print: Metric statistics">>]

\* summarize(df, metric) of the JSON analyzer
summarize(d, metric) ==
    IF metric.s \notin d.columns
    THEN [status |-> "UnknownMetric", out |-> <<>>]
    ELSE [status |-> "ok", out |-> <<"print: Metric statistics">>]

\* print("Log levels:"); print(df["level"].value_counts())
summarize_log(d) == [status |-> "ok", out |-> <<"print: Log levels">>]

\* plot_value_trend(df, title); plot_failure_rate_over_time(df)
plot_csv(d) ==
    (IF "value" \notin d.columns THEN <<>> ELSE <<"plot: Value over time">>)
        \o (IF "status" \notin d.columns THEN <<>> ELSE <<"plot: Failures per day">>)

\* plot_time_series(df, metric, title)
plot_time_series(d, metric) == <<"plot: metric over time">>

\* plot_metric(df, metric, title) of the log analyzer
plot_metric(d, metric) ==
    IF metric.s \notin d.columns
    THEN <<"print: Metric not found in parsed logs; skipping metric plot.">>
    ELSE IF empty(dropna(d, metric.s))
         THEN <<"print: No valid values for metric">>
         ELSE <<"plot: metric over time">>

\* plot_error_counts(df)
plot_error_counts(d) ==
    IF \E i \in 1..Len(d.rows) : Cell(d.rows[i], "level") \in {StrV("WARN"), StrV("ERROR")}
    THEN <<"plot: WARN/ERROR count per instrument">>
    ELSE <<"print: No WARN/ERROR entries found in logs.">>

\* the end of main of the log analyzer: "if args.metric:" and the error counts
plot_log(d, metric) ==
    (IF Truthy(metric) THEN plot_metric(d, metric) ELSE <<>>) \o plot_error_counts(d)

-----------------------------------------------------------------------------
(* The inputs of a run *)

CsvColumns == {"timestamp", "instrument_id", "value", "status"}
JsonKeys == {"timestamp", "instrument_id", "value"}

\* the cells a column holds in the model
CellsOf(col) ==
    CASE col = "timestamp"     -> {StrV(TimestampText[1]), StrV("garbage")}
      [] col = "instrument_id" -> {StrV("IVD-001"), StrV("IVD-002")}
      [] col = "status"        -> {StrV("PASS"), StrV("FAIL")}
      [] OTHER                 -> {NumV(1)}

RowsOver(cols) == {r \in [cols -> UNION {CellsOf(c) : c \in cols}] :
                       \A c \in cols : r[c] \in CellsOf(c)}

\* a CSV file: a header with at least one column, and rows that fill it
CsvSources ==
    UNION {[header : {h}, rows : SeqsUpTo(RowsOver(h), MaxRows)] :
              h \in (SUBSET CsvColumns) \ {{}}}

\* a JSON file: an array of flat objects, each with the keys it has
JsonSources ==
    [header : {{}},
     rows : SeqsUpTo(UNION {RowsOver(h) : h \in SUBSET JsonKeys}, MaxRows)]

Instruments == {None, StrV(""), StrV("IVD-001"), StrV("IVD-003")}

InitRun ==
    /\ pc = "load"
    /\ analyzer \in {"csv", "json", "log"}
    /\ \/ /\ analyzer = "csv"
          /\ source \in CsvSources
          /\ file = <<>>
          /\ args \in [instrument : Instruments, metric : {None}]
       \/ /\ analyzer = "json"
          /\ source \in JsonSources
          /\ file = <<>>
          /\ args \in [instrument : Instruments, metric : {StrV("value"), StrV("flow")}]
       \/ /\ analyzer = "log"
          /\ source = NoSource
          /\ file \in SeqsUpTo(SampleLines, MaxFileLen)
          /\ args \in [instrument : Instruments,
                       metric : {None, StrV("pressure_kpa"), StrV("flow")}]
    /\ pos = 0 /\ records = <<>>
    /\ df = NoFrame
    /\ status = "none"
    /\ output = <<>>
    /\ x = <<>> /\ window_size = 0 /\ y = NoResult
    /\ message = <<>> /\ result = EmptyDict

\* what the loader of the running analyzer returns
Loaded ==
    CASE analyzer = "csv"  -> load_csv(source)
      [] analyzer = "json" -> load_json(source)
      [] OTHER             -> load_log(file)

\* a step that ends the run with a fatal condition, or goes on
Proceed(st, next) ==
    IF st \in Fatal
    THEN status' = st /\ pc' = "done"
    ELSE status' = status /\ pc' = next

\* df = load_csv(...) / load_json(...) / load_log(...)
Load ==
    /\ pc = "load"
    /\ df' = Loaded.df
    /\ Proceed(Loaded.status, "filter")
    /\ UNCHANGED <<output, analyzer, args, source, logVars, maVars, msgVars>>

\* if args.instrument: ...
Filter ==
    /\ pc = "filter"
    /\ LET r == IF analyzer = "log" THEN filter_log(df, args.instrument)
                ELSE filter_checked(df, args.instrument)
       IN /\ df' = r.df
          /\ Proceed(r.status, "check")
    /\ UNCHANGED <<output, analyzer, args, source, logVars, maVars, msgVars>>

\* if df.empty: raise SystemExit(...)
EmptyCheck ==
    /\ pc = "check"
    /\ Proceed(empty_check(df), "summarize")
    /\ UNCHANGED <<df, output, analyzer, args, source, logVars, maVars, msgVars>>

\* the printed summary
Summarize ==
    /\ pc = "summarize"
    /\ LET r == CASE analyzer = "csv"  -> summarize_csv(df)
                  [] analyzer = "json" -> summarize(df, args.metric)
                  [] OTHER             -> summarize_log(df)
       IN /\ output' = output \o r.out
          /\ Proceed(r.status, "plot")
    /\ UNCHANGED <<df, analyzer, args, source, logVars, maVars, msgVars>>

\* the charts, and the normal end of the run
Plot ==
    /\ pc = "plot"
    /\ output' = output \o (CASE analyzer = "csv"  -> plot_csv(df)
                              [] analyzer = "json" -> plot_time_series(df, args.metric)
                              [] OTHER             -> plot_log(df, args.metric))
    /\ status' = "ok"
    /\ pc' = "done"
    /\ UNCHANGED <<df, analyzer, args, source, logVars, maVars, msgVars>>

NextRun == Load \/ Filter \/ EmptyCheck \/ Summarize \/ Plot

SpecRun == InitRun /\ [][NextRun]_vars

-----------------------------------------------------------------------------
(* Claims about the runs of the analyzers *)

\* the records of the input before the timestamps are parsed
RawRows == IF analyzer = "log" THEN parse_lines(file, <<>>) ELSE source.rows

\* the fields of the parsed dataset
RawColumns ==
    IF analyzer = "csv" THEN source.header
    ELSE UNION {DOMAIN RawRows[i] : i \in 1..Len(RawRows)}

\* a record whose timestamp parses as a date-time
ParseableRow(r) ==
    /\ "timestamp" \in DOMAIN r
    /\ r["timestamp"].kind = "str"
    /\ \E t \in 1..Len(TimestampText) : TimestampText[t] = r["timestamp"].s

\* the loader has a timestamp field to parse (a log record always has one)
HasTimestampField == analyzer = "log" \/ "timestamp" \in RawColumns

\* the records the loader hands to main
LoadedRecords == IF HasTimestampField THEN SelectSeq(RawRows, ParseableRow) ELSE <<>>

MatchesInstrument(r) == Cell(r, "instrument_id") = StrV(args.instrument.s)

NoRecordMatches == \A i \in 1..Len(LoadedRecords) : ~ MatchesInstrument(LoadedRecords[i])

\* the records left for the summary: the loaded ones, filtered if asked
Survivors ==
    IF Truthy(args.instrument) THEN SelectSeq(LoadedRecords, MatchesInstrument)
    ELSE LoadedRecords

\* a row without its timestamp
Untimed(r) == [k \in (DOMAIN r) \ {"timestamp"} |-> r[k]]

\* the column check of the CSV and JSON analyzers stops the run
MissingColumnCase ==
    /\ analyzer \in {"csv", "json"}
    /\ \/ "timestamp" \notin RawColumns
       \/ Truthy(args.instrument) /\ "instrument_id" \notin RawColumns

\* C7 (as stated): in each analyzer, when an --instrument filter is given
\* and no loaded record has that instrument_id, the run ends with the fatal
\* EmptyDataset condition and never summarizes or plots.  (Read in the
\* claim's favour: the filter is a non-empty string and the loader found
\* its timestamp field.)
C7_NoMatchIsEmptyDataset ==
    (pc = "done" /\ Truthy(args.instrument) /\ HasTimestampField /\ NoRecordMatches)
        => status = "EmptyDataset" /\ output = <<>>

\* a reachable state: an empty --instrument value is no filter at all, and
\* the run ends normally although no record has the instrument_id ""
C7_EmptyFilterValueRuns ==
    /\ pc = "done"
    /\ args.instrument = StrV("")
    /\ NoRecordMatches
    /\ status = "ok"

\* C7 (amended): when a non-empty --instrument is given and no loaded
\* record has that instrument_id, the run never reaches the summary or the
\* plots and ends fatally: with EmptyDataset, or, in the CSV and JSON
\* analyzers whose data lacks the timestamp or the instrument_id column,
\* with MissingColumn.
C7_NoMatchIsFatal ==
    (Truthy(args.instrument) /\ NoRecordMatches)
        => /\ output = <<>>
           /\ pc \notin {"summarize", "plot"}
           /\ pc = "done" =>
                 IF MissingColumnCase THEN status = "MissingColumn"
                 ELSE status = "EmptyDataset"

\* records were loaded, the filter left none, and the run ended EmptyDataset
C7_Witness ==
    /\ pc = "done"
    /\ Truthy(args.instrument)
    /\ LoadedRecords # <<>>
    /\ NoRecordMatches
    /\ status = "EmptyDataset"

\* the loader kept exactly the records whose timestamp parses, in order
LoaderKeepsParseable ==
    pc = "filter" =>
        /\ Len(df.rows) = Len(LoadedRecords)
        /\ \A i \in 1..Len(df.rows) :
              /\ Untimed(df.rows[i]) = Untimed(LoadedRecords[i])
              /\ df.rows[i]["timestamp"].kind = "time"

\* C8 (as stated): each loader drops the records whose timestamp does not
\* parse and keeps the others without aborting, and when none remains the
\* run fails with EmptyDataset before any summary or plot.
C8_AllDroppedIsEmptyDataset ==
    /\ LoaderKeepsParseable
    /\ (pc = "done" /\ HasTimestampField /\ RawRows # <<>> /\ LoadedRecords = <<>>)
          => status = "EmptyDataset" /\ output = <<>>

\* C8 (amended): the same, except that the CSV and JSON analyzers with a
\* non-empty --instrument and no instrument_id column end with
\* MissingColumn instead of EmptyDataset.
C8_AllDroppedIsFatal ==
    /\ LoaderKeepsParseable
    /\ (HasTimestampField /\ LoadedRecords = <<>>)
          => /\ output = <<>>
             /\ pc \notin {"summarize", "plot"}
             /\ pc = "done" =>
                   IF MissingColumnCase THEN status = "MissingColumn"
                   ELSE status = "EmptyDataset"

\* every record of a non-empty input was dropped and the run ended EmptyDataset
C8_Witness ==
    /\ pc = "done"
    /\ RawRows # <<>>
    /\ HasTimestampField
    /\ LoadedRecords = <<>>
    /\ status = "EmptyDataset"

\* the requested metric is not a field of the parsed dataset
MetricUnknown == Truthy(args.metric) /\ args.metric.s \notin RawColumns

\* C9 (as stated): in the JSON and the log analyzer, a requested metric
\* that is not a field of the parsed dataset ends the run with a fatal
\* condition instead of letting it continue.
C9_UnknownMetricIsFatal ==
    (pc = "done" /\ analyzer \in {"json", "log"} /\ MetricUnknown)
        => status \in Fatal

\* C9 (amended): in the JSON analyzer such a run never prints or plots and
\* ends fatally, with UnknownMetric exactly when the data passes the column
\* checks and a record is left; in the log analyzer the unknown metric is
\* not fatal: a run that has a record left prints the levels, the "not
\* found; skipping metric plot" notice and the error counts, and ends
\* normally.
C9_UnknownMetricFatalInJsonOnly ==
    /\ (analyzer = "json" /\ MetricUnknown)
          => /\ output = <<>>
             /\ pc # "plot"
             /\ pc = "done" =>
                   /\ status \in Fatal
                   /\ status = "UnknownMetric" <=> (~ MissingColumnCase /\ Survivors # <<>>)
    /\ (analyzer = "log" /\ MetricUnknown /\ pc = "done")
          => IF Survivors = <<>> THEN status = "EmptyDataset" /\ output = <<>>
             ELSE /\ status = "ok"
                  /\ Len(output) = 3
                  /\ output[1] = "print: Log levels"
                  /\ output[2] = "print: Metric not found in parsed logs; skipping metric plot."

\* a JSON run that ended with UnknownMetric
C9_Witness ==
    /\ pc = "done"
    /\ analyzer = "json"
    /\ MetricUnknown
    /\ status = "UnknownMetric"

\* a log run with an unknown metric that ended normally
C9_LogWitness ==
    /\ pc = "done"
    /\ analyzer = "log"
    /\ MetricUnknown
    /\ status = "ok"

\* C10: in every run the steps come in the order load, filter, empty
\* check, summarize, plot, and every fatal check comes before the first
\* output: nothing is printed or plotted before the empty check has
\* passed, the summary is printed before the plots, and a run that ends in
\* a fatal condition has printed and plotted nothing.
C10_FatalChecksBeforeOutput ==
    /\ pc \in {"load", "filter", "check", "summarize"} => output = <<>>
    /\ pc = "plot" => output # <<>>
    /\ output # <<>> => status \in {"none", "ok"}
    /\ status \in Fatal => pc = "done" /\ output = <<>>
    /\ status = "ok" <=> (pc = "done" /\ output # <<>>)

\* a run that printed its summary, plotted, and ended normally
C10_Witness ==
    /\ pc = "done"
    /\ status = "ok"
    /\ Len(output) >= 2

=============================================================================
